---- MODULE Spec2Model ----
(***************************************************************************)
(* A model of the MySQL query builder of main.go (package Mysqlqb).        *)
(*                                                                         *)
(* A Go string is a sequence of one-character strings, so that rendered    *)
(* SQL text can be compared, concatenated and searched for `?`.  A bound   *)
(* value (interface{}) is an opaque atom: the builder never inspects one.  *)
(* A map[string]interface{} is a function from column names to values; the *)
(* order in which Go ranges over it is an input of the operation.          *)
(***************************************************************************)
EXTENDS Integers, Sequences, FiniteSets, TLC

VARIABLES qb, hist, ret, panicked, budget

vars == <<qb, hist, ret, panicked, budget>>

----------------------------------------------------------------------------
(* Bounds of the model. *)

\* clause-adding calls on one builder under Spec
MaxCalls == 4
\* calls on one builder under SpecWhere
MaxWhereCalls == 2
\* calls on one builder under SpecExec
MaxExecCalls == 2
\* calls that change the builder under SpecAll
MaxAllCalls == 2
\* length of the value list handed to WhereIn / WhereNotIn
MaxVals == 2
\* number of records handed to BulkInsert
MaxRecs == 2

\* the value Table gives limit and offset (main.go:58,59)
Unset == -1

----------------------------------------------------------------------------
(* strings, fmt *)

Digits == <<"0", "1", "2", "3", "4", "5", "6", "7", "8", "9">>

\* strconv of a non-negative integer
RECURSIVE FmtNat(_)
FmtNat(n) == IF n < 10 THEN <<Digits[n + 1]>>
             ELSE FmtNat(n \div 10) \o <<Digits[(n % 10) + 1]>>

\* fmt.Sprintf("%d", n)
FmtInt(n) == IF n < 0 THEN <<"-">> \o FmtNat(-n) ELSE FmtNat(n)

\* strings.Join(elems, sep)
RECURSIVE StringsJoin(_, _)
StringsJoin(elems, sep) ==
    IF elems = <<>> THEN <<>>
    ELSE IF Len(elems) = 1 THEN elems[1]
    ELSE elems[1] \o sep \o StringsJoin(Tail(elems), sep)

----------------------------------------------------------------------------
(* QueryBuilder *)

\* Table(table): the builder after construction
Table(table) ==
    [table |-> table, columns |-> <<>>, joins |-> <<>>, where |-> <<>>,
     orderBy |-> <<>>, groupBy |-> <<>>, having |-> <<>>,
     limit |-> Unset, offset |-> Unset, parameters |-> <<>>]

\* a Select that replaces the projection instead of adding to it
SelectReplaces(q, columns) == [q EXCEPT !.columns = columns]

Select(q, columns) == [q EXCEPT !.columns = @ \o columns]

Where(q, condition, params) ==
    [q EXCEPT !.where = Append(@, condition), !.parameters = @ \o params]

\* the loop with each value put before the parameters instead of after them
RECURSIVE InLoopPrepends(_, _, _)
InLoopPrepends(placeholders, parameters, values) ==
    IF values = <<>> THEN [placeholders |-> placeholders, parameters |-> parameters]
    ELSE InLoopPrepends(Append(placeholders, <<"?">>), <<Head(values)>> \o parameters,
                        Tail(values))

\* the loop of WhereIn / WhereNotIn: one "?" and one parameter per value
RECURSIVE InLoop(_, _, _)
InLoop(placeholders, parameters, values) ==
    IF values = <<>> THEN [placeholders |-> placeholders, parameters |-> parameters]
    ELSE InLoop(Append(placeholders, <<"?">>), Append(parameters, Head(values)),
                Tail(values))

WhereIn(q, column, values) ==
    LET l == InLoop(<<>>, q.parameters, values)
    IN  [q EXCEPT !.parameters = l.parameters,
                  !.where = Append(@, column \o <<" ", "I", "N", " ", "(">> \o
                                      StringsJoin(l.placeholders, <<",", " ">>) \o <<")">>)]

WhereNotIn(q, column, values) ==
    LET l == InLoop(<<>>, q.parameters, values)
    IN  [q EXCEPT !.parameters = l.parameters,
                  !.where = Append(@, column \o <<" ", "N", "O", "T", " ", "I", "N", " ", "(">> \o
                                      StringsJoin(l.placeholders, <<",", " ">>) \o <<")">>)]

WhereNull(q, column) == [q EXCEPT !.where = Append(@, column \o <<" ", "I", "S", " ", "N", "U", "L", "L">>)]

OrWhere(q, condition, params) ==
    [q EXCEPT !.where = Append(@, <<"O", "R", " ">> \o condition), !.parameters = @ \o params]

WhereLike(q, column, value) ==
    [q EXCEPT !.where = Append(@, column \o <<" ", "L", "I", "K", "E", " ", "?">>),
              !.parameters = Append(@, value)]

WhereNotLike(q, column, value) ==
    [q EXCEPT !.where = Append(@, column \o <<" ", "N", "O", "T", " ", "L", "I", "K", "E", " ", "?">>),
              !.parameters = Append(@, value)]

WhereBetween(q, column, start, end) ==
    [q EXCEPT !.where = Append(@, column \o <<" ", "B", "E", "T", "W", "E", "E", "N", " ", "?", " ", "A", "N", "D", " ", "?">>),
              !.parameters = @ \o <<start, end>>]

DateBetween(q, column, start, end) ==
    [q EXCEPT !.where = Append(@, column \o <<" ", "B", "E", "T", "W", "E", "E", "N", " ", "?", " ", "A", "N", "D", " ", "?">>),
              !.parameters = @ \o <<start, end>>]

Join(q, joinType, table, condition) ==
    [q EXCEPT !.joins = Append(@, joinType \o <<" ", "J", "O", "I", "N", " ">> \o table \o <<" ", "O", "N", " ">> \o condition)]

InnerJoin(q, table, condition) == Join(q, <<"I", "N", "N", "E", "R">>, table, condition)

LeftJoin(q, table, condition) == Join(q, <<"L", "E", "F", "T">>, table, condition)

RightJoin(q, table, condition) == Join(q, <<"R", "I", "G", "H", "T">>, table, condition)

GroupBy(q, columns) == [q EXCEPT !.groupBy = StringsJoin(columns, <<",", " ">>)]

Having(q, condition, params) ==
    [q EXCEPT !.having = Append(@, condition), !.parameters = @ \o params]

OrderBy(q, order) == [q EXCEPT !.orderBy = order]

\* a Limit that also forgets the offset
LimitResetsOffset(q, limit) == [q EXCEPT !.limit = limit, !.offset = Unset]

Limit(q, limit) == [q EXCEPT !.limit = limit]

Offset(q, offset) == [q EXCEPT !.offset = offset]

\* a Build that takes a limit of 0 for no limit (limit > 0 for limit >= 0)
BuildSkipsZeroLimit(q) ==
    LET s1 == IF Len(q.columns) > 0
              THEN <<"S", "E", "L", "E", "C", "T", " ">> \o StringsJoin(q.columns, <<",", " ">>)
              ELSE <<"S", "E", "L", "E", "C", "T", " ", "*">>
        s2 == s1 \o <<" ", "F", "R", "O", "M", " ">> \o q.table
        s3 == IF Len(q.joins) > 0 THEN s2 \o <<" ">> \o StringsJoin(q.joins, <<" ">>) ELSE s2
        s4 == IF Len(q.where) > 0
              THEN s3 \o <<" ", "W", "H", "E", "R", "E", " ">> \o StringsJoin(q.where, <<" ", "A", "N", "D", " ">>) ELSE s3
        s5 == IF q.orderBy # <<>> THEN s4 \o <<" ", "O", "R", "D", "E", "R", " ", "B", "Y", " ">> \o q.orderBy ELSE s4
        s6 == IF q.limit > 0 THEN s5 \o <<" ", "L", "I", "M", "I", "T", " ">> \o FmtInt(q.limit) ELSE s5
        s7 == IF q.offset >= 0 THEN s6 \o <<" ", "O", "F", "F", "S", "E", "T", " ">> \o FmtInt(q.offset) ELSE s6
    IN  [query |-> s7, params |-> q.parameters]

\* Build: the text written to the strings.Builder, and qb.parameters
Build(q) ==
    LET s1 == IF Len(q.columns) > 0
              THEN <<"S", "E", "L", "E", "C", "T", " ">> \o StringsJoin(q.columns, <<",", " ">>)
              ELSE <<"S", "E", "L", "E", "C", "T", " ", "*">>
        s2 == s1 \o <<" ", "F", "R", "O", "M", " ">> \o q.table
        s3 == IF Len(q.joins) > 0 THEN s2 \o <<" ">> \o StringsJoin(q.joins, <<" ">>) ELSE s2
        s4 == IF Len(q.where) > 0
              THEN s3 \o <<" ", "W", "H", "E", "R", "E", " ">> \o StringsJoin(q.where, <<" ", "A", "N", "D", " ">>) ELSE s3
        s5 == IF q.orderBy # <<>> THEN s4 \o <<" ", "O", "R", "D", "E", "R", " ", "B", "Y", " ">> \o q.orderBy ELSE s4
        s6 == IF q.limit >= 0 THEN s5 \o <<" ", "L", "I", "M", "I", "T", " ">> \o FmtInt(q.limit) ELSE s5
        s7 == IF q.offset >= 0 THEN s6 \o <<" ", "O", "F", "F", "S", "E", "T", " ">> \o FmtInt(q.offset) ELSE s6
    IN  [query |-> s7, params |-> q.parameters]

\* BuildSelectQuery: the SELECT without ORDER BY, LIMIT and OFFSET
BuildSelectQuery(q) ==
    LET s1 == IF Len(q.columns) > 0
              THEN <<"S", "E", "L", "E", "C", "T", " ">> \o StringsJoin(q.columns, <<",", " ">>)
              ELSE <<"S", "E", "L", "E", "C", "T", " ", "*">>
        s2 == s1 \o <<" ", "F", "R", "O", "M", " ">> \o q.table
        s3 == IF Len(q.joins) > 0 THEN s2 \o <<" ">> \o StringsJoin(q.joins, <<" ">>) ELSE s2
        s4 == IF Len(q.where) > 0
              THEN s3 \o <<" ", "W", "H", "E", "R", "E", " ">> \o StringsJoin(q.where, <<" ", "A", "N", "D", " ">>) ELSE s3
    IN  s4

----------------------------------------------------------------------------
(* Terminal operations.  Each yields the builder it leaves, the text and   *)
(* parameters it returns or prints, the statements it hands to             *)
(* DBConnection (Exec, Query, QueryRow), the error it raises itself, and   *)
(* whether it panics.                                                      *)

\* interface{}(nil): what a map lookup of a missing key yields
Nil == "<nil>"

Stmt(query, args) == [query |-> query, args |-> args]

Result(q, b, issued, err, panic) ==
    [qb |-> q, query |-> b.query, params |-> b.params, issued |-> issued,
     err |-> err, panic |-> panic]

NoBuild == [query |-> <<>>, params |-> <<>>]

Count(q) ==
    LET countQuery == <<"S", "E", "L", "E", "C", "T", " ", "C", "O", "U", "N", "T", "(", "*", ")", " ", "F", "R", "O", "M", " ", "(">> \o BuildSelectQuery(q) \o <<")", " ", "A", "S", " ", "c", "o", "u", "n", "t", "_", "q", "u", "e", "r", "y">>
    IN  Result(q, NoBuild, <<Stmt(countQuery, q.parameters)>>, "", FALSE)

Sum(q, column) ==
    LET q1 == [q EXCEPT !.columns = <<<<"S", "U", "M", "(">> \o column \o <<")">>>>]
        b  == Build(q1)
    IN  Result(q1, NoBuild, <<Stmt(b.query, b.params)>>, "", FALSE)

Max(q, column) ==
    LET q1 == [q EXCEPT !.columns = <<<<"M", "A", "X", "(">> \o column \o <<")">>>>]
        b  == Build(q1)
    IN  Result(q1, NoBuild, <<Stmt(b.query, b.params)>>, "", FALSE)

Min(q, column) ==
    LET q1 == [q EXCEPT !.columns = <<<<"M", "I", "N", "(">> \o column \o <<")">>>>]
        b  == Build(q1)
    IN  Result(q1, NoBuild, <<Stmt(b.query, b.params)>>, "", FALSE)

Avg(q, column) ==
    LET q1 == [q EXCEPT !.columns = <<<<"A", "V", "G", "(">> \o column \o <<")">>>>]
        b  == Build(q1)
    IN  Result(q1, NoBuild, <<Stmt(b.query, b.params)>>, "", FALSE)

\* range over a map: order lists the keys of data in the order Go yields them
RECURSIVE InsertLoop(_, _, _, _, _)
InsertLoop(data, order, columns, placeholders, params) ==
    IF order = <<>>
    THEN [columns |-> columns, placeholders |-> placeholders, params |-> params]
    ELSE InsertLoop(data, Tail(order), Append(columns, Head(order)),
                    Append(placeholders, <<"?">>), Append(params, data[Head(order)]))

Insert(q, data, order) ==
    LET l == InsertLoop(data, order, <<>>, <<>>, <<>>)
        query == <<"I", "N", "S", "E", "R", "T", " ", "I", "N", "T", "O", " ">> \o q.table \o <<" ", "(">> \o StringsJoin(l.columns, <<",">>)
                 \o <<")", " ", "V", "A", "L", "U", "E", "S", " ", "(">> \o StringsJoin(l.placeholders, <<",">>) \o <<")">>
    IN  Result(q, NoBuild, <<Stmt(query, l.params)>>, "", FALSE)

\* row[column]: the value, or nil when the row has no such key
Lookup(row, column) == IF column \in DOMAIN row THEN row[column] ELSE Nil

\* the inner loop of BulkInsert over the columns of the first record;
\* placeholders[i] = "?" panics (index out of range) when i exceeds len(row)
RECURSIVE BulkColumns(_, _, _, _, _)
BulkColumns(i, columns, row, placeholders, params) ==
    IF i > Len(columns)
    THEN [placeholders |-> placeholders, params |-> params, panic |-> FALSE]
    ELSE IF i > Len(placeholders)
    THEN [placeholders |-> placeholders, params |-> params, panic |-> TRUE]
    ELSE BulkColumns(i + 1, columns, row, [placeholders EXCEPT ![i] = <<"?">>],
                     Append(params, Lookup(row, columns[i])))

\* the outer loop of BulkInsert over the records
RECURSIVE BulkRows(_, _, _, _)
BulkRows(data, columns, values, params) ==
    IF data = <<>> THEN [values |-> values, params |-> params, panic |-> FALSE]
    ELSE LET row == Head(data)
             made == [i \in 1..Cardinality(DOMAIN row) |-> <<>>]
             c == BulkColumns(1, columns, row, made, params)
         IN  IF c.panic THEN [values |-> values, params |-> c.params, panic |-> TRUE]
             ELSE BulkRows(Tail(data), columns,
                           Append(values, <<"(">> \o StringsJoin(c.placeholders, <<",">>) \o <<")">>),
                           c.params)

\* a BulkInsert without the check for empty data
BulkInsertUnchecked(q, data, order) ==
    LET columns == order
        l == BulkRows(data, columns, <<>>, <<>>)
        query == <<"I", "N", "S", "E", "R", "T", " ", "I", "N", "T", "O", " ">> \o q.table \o <<" ", "(">> \o StringsJoin(columns, <<",">>)
                 \o <<")", " ", "V", "A", "L", "U", "E", "S", " ">> \o StringsJoin(l.values, <<",">>)
    IN  IF l.panic THEN Result(q, NoBuild, <<>>, "", TRUE)
        ELSE Result(q, NoBuild, <<Stmt(query, l.params)>>, "", FALSE)

BulkInsert(q, data, order) ==
    IF Len(data) = 0
    THEN Result(q, NoBuild, <<>>, "no data to insert", FALSE)
    ELSE LET columns == order
             l == BulkRows(data, columns, <<>>, <<>>)
             query == <<"I", "N", "S", "E", "R", "T", " ", "I", "N", "T", "O", " ">> \o q.table \o <<" ", "(">> \o StringsJoin(columns, <<",">>)
                      \o <<")", " ", "V", "A", "L", "U", "E", "S", " ">> \o StringsJoin(l.values, <<",">>)
         IN  IF l.panic THEN Result(q, NoBuild, <<>>, "", TRUE)
             ELSE Result(q, NoBuild, <<Stmt(query, l.params)>>, "", FALSE)

RECURSIVE UpdateLoop(_, _, _, _)
UpdateLoop(data, order, setClauses, params) ==
    IF order = <<>> THEN [setClauses |-> setClauses, params |-> params]
    ELSE UpdateLoop(data, Tail(order), Append(setClauses, Head(order) \o <<" ", "=", " ", "?">>),
                    Append(params, data[Head(order)]))

Update(q, data, order) ==
    LET l == UpdateLoop(data, order, <<>>, <<>>)
        query == <<"U", "P", "D", "A", "T", "E", " ">> \o q.table \o <<" ", "S", "E", "T", " ">> \o StringsJoin(l.setClauses, <<",">>)
                 \o <<" ", "W", "H", "E", "R", "E", " ">> \o StringsJoin(q.where, <<" ", "A", "N", "D", " ">>)
    IN  Result(q, NoBuild, <<Stmt(query, l.params)>>, "", FALSE)

\* PrintQuery prints the built query and its parameters
PrintQuery(q) == Result(q, Build(q), <<>>, "", FALSE)

Delete(q) ==
    LET q0 == <<"D", "E", "L", "E", "T", "E", " ", "F", "R", "O", "M", " ">> \o q.table
        query == IF Len(q.where) > 0
                 THEN q0 \o <<" ", "W", "H", "E", "R", "E", " ">> \o StringsJoin(q.where, <<" ", "A", "N", "D", " ">>) ELSE q0
        p == PrintQuery(q)
    IN  Result(p.qb, [query |-> p.query, params |-> p.params],
               <<Stmt(query, p.qb.parameters)>>, "", FALSE)

\* Get hands the built statement to Query
Get(q) ==
    LET b == Build(q) IN Result(q, NoBuild, <<Stmt(b.query, b.params)>>, "", FALSE)

\* First hands the built statement to QueryRow and again to Query
First(q) ==
    LET b == Build(q)
    IN  Result(q, NoBuild, <<Stmt(b.query, b.params), Stmt(b.query, b.params)>>, "", FALSE)

----------------------------------------------------------------------------
(* The state machine.  qb is the builder; hist is a history variable that   *)
(* keeps, per kind of clause, the calls made on the builder in call order;  *)
(* ret names the last call and, for a terminal operation, holds its input   *)
(* (data, order), what it returned or printed (query, params), the          *)
(* statements it handed to DBConnection (issued) and its error; panicked    *)
(* tells that the process was aborted by a panic; budget is the number of   *)
(* builder-changing calls the caller makes at most.                         *)

\* a call of a chaining method: its name, its string arguments, its bound
\* values and its integer argument
CallOf(op, s, v, n) == [op |-> op, s |-> s, v |-> v, n |-> n]

WhereFamily == {"Where", "WhereIn", "WhereNotIn", "WhereNull", "OrWhere", "WhereLike",
                "WhereNotLike", "WhereBetween", "DateBetween"}

JoinFamily == {"Join", "InnerJoin", "LeftJoin", "RightJoin"}

Aggregates == {"Sum", "Max", "Min", "Avg"}

Kind(op) == IF op \in WhereFamily THEN "where"
            ELSE IF op \in JoinFamily THEN "join"
            ELSE IF op \in Aggregates THEN "aggregate"
            ELSE op

Kinds == {"Select", "where", "join", "GroupBy", "Having", "OrderBy", "Limit", "Offset",
          "aggregate"}

\* the method a call names, applied to builder q
Apply(q, c) ==
    CASE c.op = "Select"       -> Select(q, c.s)
      [] c.op = "Where"        -> Where(q, c.s[1], c.v)
      [] c.op = "WhereIn"      -> WhereIn(q, c.s[1], c.v)
      [] c.op = "WhereNotIn"   -> WhereNotIn(q, c.s[1], c.v)
      [] c.op = "WhereNull"    -> WhereNull(q, c.s[1])
      [] c.op = "OrWhere"      -> OrWhere(q, c.s[1], c.v)
      [] c.op = "WhereLike"    -> WhereLike(q, c.s[1], c.v[1])
      [] c.op = "WhereNotLike" -> WhereNotLike(q, c.s[1], c.v[1])
      [] c.op = "WhereBetween" -> WhereBetween(q, c.s[1], c.v[1], c.v[2])
      [] c.op = "DateBetween"  -> DateBetween(q, c.s[1], c.v[1], c.v[2])
      [] c.op = "Join"         -> Join(q, c.s[1], c.s[2], c.s[3])
      [] c.op = "InnerJoin"    -> InnerJoin(q, c.s[1], c.s[2])
      [] c.op = "LeftJoin"     -> LeftJoin(q, c.s[1], c.s[2])
      [] c.op = "RightJoin"    -> RightJoin(q, c.s[1], c.s[2])
      [] c.op = "GroupBy"      -> GroupBy(q, c.s)
      [] c.op = "Having"       -> Having(q, c.s[1], c.v)
      [] c.op = "OrderBy"      -> OrderBy(q, c.s[1])
      [] c.op = "Limit"        -> Limit(q, c.n)
      [] c.op = "Offset"       -> Offset(q, c.n)
      [] c.op = "Sum"          -> Sum(q, c.s[1]).qb
      [] c.op = "Max"          -> Max(q, c.s[1]).qb
      [] c.op = "Min"          -> Min(q, c.s[1]).qb
      [] c.op = "Avg"          -> Avg(q, c.s[1]).qb

NoRet == [op |-> "", again |-> FALSE, data |-> <<>>, order |-> <<>>, query |-> <<>>,
          params |-> <<>>, issued |-> <<>>, err |-> ""]

\* the number of calls recorded in hist
NCalls ==
    Len(hist["Select"]) + Len(hist["where"]) + Len(hist["join"]) + Len(hist["GroupBy"])
    + Len(hist["Having"]) + Len(hist["OrderBy"]) + Len(hist["Limit"])
    + Len(hist["Offset"]) + Len(hist["aggregate"])

\* the caller may make one more call that changes the builder
CanCall == ~panicked /\ NCalls < budget

\* call c is added to the history of its kind
Logged(c) == hist' = [hist EXCEPT ![Kind(c.op)] = Append(@, c)]

\* a chaining method was called as c: it returns the builder itself
Chained(c) ==
    /\ Logged(c)
    /\ ret' = [NoRet EXCEPT !.op = c.op]
    /\ UNCHANGED <<panicked, budget>>

\* the error a terminal operation returns: its own, or the one DBConnection
\* gives for the statement handed to it
ErrOf(r, dbErr) == IF r.panic THEN "panic"
                   ELSE IF r.err # "" THEN r.err
                   ELSE IF dbErr /\ r.issued # <<>> THEN "db" ELSE ""

\* a terminal operation is called with input data (and the order in which
\* its first map is ranged over), r being what it yields on qb
Terminal(op, data, order, r, dbErr) ==
    /\ ~panicked
    /\ qb' = r.qb
    /\ ret' = [op |-> op, again |-> FALSE, data |-> data, order |-> order,
               query |-> r.query, params |-> r.params,
               issued |-> r.issued, err |-> ErrOf(r, dbErr)]
    /\ panicked' = r.panic
    /\ UNCHANGED budget

DoSelect(columns) ==
    /\ CanCall
    /\ qb' = Select(qb, columns)
    /\ Chained(CallOf("Select", columns, <<>>, 0))

DoWhere(condition, params) ==
    /\ CanCall
    /\ qb' = Where(qb, condition, params)
    /\ Chained(CallOf("Where", <<condition>>, params, 0))

DoWhereIn(column, values) ==
    /\ CanCall
    /\ qb' = WhereIn(qb, column, values)
    /\ Chained(CallOf("WhereIn", <<column>>, values, 0))

DoWhereNotIn(column, values) ==
    /\ CanCall
    /\ qb' = WhereNotIn(qb, column, values)
    /\ Chained(CallOf("WhereNotIn", <<column>>, values, 0))

DoWhereNull(column) ==
    /\ CanCall
    /\ qb' = WhereNull(qb, column)
    /\ Chained(CallOf("WhereNull", <<column>>, <<>>, 0))

DoOrWhere(condition, params) ==
    /\ CanCall
    /\ qb' = OrWhere(qb, condition, params)
    /\ Chained(CallOf("OrWhere", <<condition>>, params, 0))

DoWhereLike(column, value) ==
    /\ CanCall
    /\ qb' = WhereLike(qb, column, value)
    /\ Chained(CallOf("WhereLike", <<column>>, <<value>>, 0))

DoWhereNotLike(column, value) ==
    /\ CanCall
    /\ qb' = WhereNotLike(qb, column, value)
    /\ Chained(CallOf("WhereNotLike", <<column>>, <<value>>, 0))

DoWhereBetween(column, start, end) ==
    /\ CanCall
    /\ qb' = WhereBetween(qb, column, start, end)
    /\ Chained(CallOf("WhereBetween", <<column>>, <<start, end>>, 0))

DoDateBetween(column, start, end) ==
    /\ CanCall
    /\ qb' = DateBetween(qb, column, start, end)
    /\ Chained(CallOf("DateBetween", <<column>>, <<start, end>>, 0))

DoJoin(joinType, table, condition) ==
    /\ CanCall
    /\ qb' = Join(qb, joinType, table, condition)
    /\ Chained(CallOf("Join", <<joinType, table, condition>>, <<>>, 0))

DoInnerJoin(table, condition) ==
    /\ CanCall
    /\ qb' = InnerJoin(qb, table, condition)
    /\ Chained(CallOf("InnerJoin", <<table, condition>>, <<>>, 0))

DoLeftJoin(table, condition) ==
    /\ CanCall
    /\ qb' = LeftJoin(qb, table, condition)
    /\ Chained(CallOf("LeftJoin", <<table, condition>>, <<>>, 0))

DoRightJoin(table, condition) ==
    /\ CanCall
    /\ qb' = RightJoin(qb, table, condition)
    /\ Chained(CallOf("RightJoin", <<table, condition>>, <<>>, 0))

DoGroupBy(columns) ==
    /\ CanCall
    /\ qb' = GroupBy(qb, columns)
    /\ Chained(CallOf("GroupBy", columns, <<>>, 0))

DoHaving(condition, params) ==
    /\ CanCall
    /\ qb' = Having(qb, condition, params)
    /\ Chained(CallOf("Having", <<condition>>, params, 0))

DoOrderBy(order) ==
    /\ CanCall
    /\ qb' = OrderBy(qb, order)
    /\ Chained(CallOf("OrderBy", <<order>>, <<>>, 0))

DoLimit(limit) ==
    /\ CanCall
    /\ qb' = Limit(qb, limit)
    /\ Chained(CallOf("Limit", <<>>, <<>>, limit))

DoOffset(offset) ==
    /\ CanCall
    /\ qb' = Offset(qb, offset)
    /\ Chained(CallOf("Offset", <<>>, <<>>, offset))

\* a Build that hands the parameters over and clears them in the builder
DoBuildClearsParameters ==
    /\ ~panicked
    /\ qb' = [qb EXCEPT !.parameters = <<>>]
    /\ ret' = [NoRet EXCEPT !.op = "Build", !.again = (ret.op = "Build"),
                            !.query = Build(qb).query, !.params = Build(qb).params]
    /\ UNCHANGED <<hist, panicked, budget>>

\* Build is called: it returns the text and the parameters
DoBuild ==
    /\ ~panicked
    /\ qb' = qb
    /\ ret' = [NoRet EXCEPT !.op = "Build", !.again = (ret.op = "Build"),
                            !.query = Build(qb).query, !.params = Build(qb).params]
    /\ UNCHANGED <<hist, panicked, budget>>

DoPrintQuery == Terminal("PrintQuery", <<>>, <<>>, PrintQuery(qb), FALSE) /\ UNCHANGED hist

DoCount(dbErr) == Terminal("Count", <<>>, <<>>, Count(qb), dbErr) /\ UNCHANGED hist

\* the aggregates overwrite the projection, and so are logged
DoSum(column, dbErr) ==
    /\ NCalls < budget
    /\ Terminal("Sum", <<>>, <<>>, Sum(qb, column), dbErr)
    /\ Logged(CallOf("Sum", <<column>>, <<>>, 0))

DoMax(column, dbErr) ==
    /\ NCalls < budget
    /\ Terminal("Max", <<>>, <<>>, Max(qb, column), dbErr)
    /\ Logged(CallOf("Max", <<column>>, <<>>, 0))

DoMin(column, dbErr) ==
    /\ NCalls < budget
    /\ Terminal("Min", <<>>, <<>>, Min(qb, column), dbErr)
    /\ Logged(CallOf("Min", <<column>>, <<>>, 0))

DoAvg(column, dbErr) ==
    /\ NCalls < budget
    /\ Terminal("Avg", <<>>, <<>>, Avg(qb, column), dbErr)
    /\ Logged(CallOf("Avg", <<column>>, <<>>, 0))

DoInsert(data, order, dbErr) ==
    Terminal("Insert", <<data>>, order, Insert(qb, data, order), dbErr) /\ UNCHANGED hist

DoBulkInsert(data, order, dbErr) ==
    Terminal("BulkInsert", data, order, BulkInsert(qb, data, order), dbErr) /\ UNCHANGED hist

DoUpdate(data, order, dbErr) ==
    Terminal("Update", <<data>>, order, Update(qb, data, order), dbErr) /\ UNCHANGED hist

DoDelete(dbErr) == Terminal("Delete", <<>>, <<>>, Delete(qb), dbErr) /\ UNCHANGED hist

DoGet(dbErr) == Terminal("Get", <<>>, <<>>, Get(qb), dbErr) /\ UNCHANGED hist

DoFirst(dbErr) == Terminal("First", <<>>, <<>>, First(qb), dbErr) /\ UNCHANGED hist

----------------------------------------------------------------------------
(* Inputs *)

TableNames == {<<"u", "s", "e", "r", "s">>}

Values == {"18", "7"}

SelectArgs == {<<<<"i", "d">>>>, <<<<"i", "d">>, <<"n", "a", "m", "e">>>>}

\* a condition with as many values as it has placeholders, and one with fewer
Matched == [cond |-> <<"a", "g", "e", " ", ">", " ", "?">>, params |-> <<"18">>]
Unmatched == [cond |-> <<"a", "g", "e", " ", ">", " ", "?">>, params |-> <<>>]
CondArgs == {Matched, Unmatched}

LimitArgs == {-2, 0, 10}

OffsetArgs == {-2, 5}

\* the value lists of WhereIn / WhereNotIn
ValSeqs == UNION {[1..n -> Values] : n \in 0..MaxVals}

\* the sequences that enumerate set S once each: the orders of a range over a map
Orders(S) == {o \in [1..Cardinality(S) -> S] : \A i, j \in 1..Cardinality(S) : o[i] = o[j] => i = j}

\* records for Insert, Update and BulkInsert
RowAB == (<<"a">> :> "18") @@ (<<"b">> :> "7")
RowA == (<<"a">> :> "7")
RowAC == (<<"a">> :> "7") @@ (<<"c">> :> "18")
Rows == {RowAB, RowA, RowAC}

\* the inputs of BulkInsert
DataSeqs == UNION {[1..n -> Rows] : n \in 0..MaxRecs}

\* the orders in which Go may range over the first record of data
FirstOrders(data) == IF data = <<>> THEN {<<>>} ELSE Orders(DOMAIN data[1])

\* a builder fresh from Table, on which at most n changing calls will be made
Fresh(n) ==
    /\ qb \in {Table(t) : t \in TableNames}
    /\ hist = [k \in Kinds |-> <<>>]
    /\ ret = NoRet
    /\ panicked = FALSE
    /\ budget = n

Init == Fresh(MaxCalls)

\* Spec: the calls that shape the rendered SELECT, and Build
Next ==
    \/ \E columns \in SelectArgs : DoSelect(columns)
    \/ DoWhere(Matched.cond, Matched.params)
    \/ DoWhereNull(<<"n", "a", "m", "e">>)
    \/ DoOrWhere(Matched.cond, Matched.params)
    \/ DoJoin(<<"C", "R", "O", "S", "S">>, <<"o">>, <<"o", ".", "u", "i", "d", " ", "=", " ", "i", "d">>)
    \/ DoInnerJoin(<<"o">>, <<"o", ".", "u", "i", "d", " ", "=", " ", "i", "d">>)
    \/ DoLeftJoin(<<"o">>, <<"o", ".", "u", "i", "d", " ", "=", " ", "i", "d">>)
    \/ DoRightJoin(<<"o">>, <<"o", ".", "u", "i", "d", " ", "=", " ", "i", "d">>)
    \/ DoOrderBy(<<"i", "d", " ", "D", "E", "S", "C">>)
    \/ \E limit \in LimitArgs : DoLimit(limit)
    \/ \E offset \in OffsetArgs : DoOffset(offset)
    \/ DoBuild

Spec == Init /\ [][Next]_vars

\* SpecWhere: the calls that bind values, and Build
NextWhere ==
    \/ \E a \in CondArgs : DoWhere(a.cond, a.params)
    \/ \E values \in ValSeqs : DoWhereIn(<<"i", "d">>, values)
    \/ \E values \in ValSeqs : DoWhereNotIn(<<"i", "d">>, values)
    \/ DoWhereLike(<<"n", "a", "m", "e">>, "7")
    \/ DoWhereNotLike(<<"n", "a", "m", "e">>, "7")
    \/ DoWhereBetween(<<"a", "g", "e">>, "7", "18")
    \/ DoDateBetween(<<"d", "a", "y">>, "7", "18")
    \/ \E a \in CondArgs : DoHaving(a.cond, a.params)
    \/ DoBuild

InitWhere == Fresh(MaxWhereCalls)

SpecWhere == InitWhere /\ [][NextWhere]_vars

\* SpecExec: predicates and a projection, and the operations that change rows
NextExec ==
    \/ \E a \in CondArgs : DoWhere(a.cond, a.params)
    \/ DoWhereBetween(<<"a", "g", "e">>, "7", "18")
    \/ DoSelect(<<<<"i", "d">>>>)
    \/ \E data \in Rows : \E order \in Orders(DOMAIN data) : \E dbErr \in BOOLEAN :
          DoInsert(data, order, dbErr)
    \/ \E data \in DataSeqs : \E order \in FirstOrders(data) : \E dbErr \in BOOLEAN :
          DoBulkInsert(data, order, dbErr)
    \/ \E data \in Rows : \E order \in Orders(DOMAIN data) : \E dbErr \in BOOLEAN :
          DoUpdate(data, order, dbErr)
    \/ \E dbErr \in BOOLEAN : DoDelete(dbErr)

InitExec == Fresh(MaxExecCalls)

SpecExec == InitExec /\ [][NextExec]_vars

\* SpecAll: every operation of the builder
NextAll ==
    \/ DoSelect(<<<<"i", "d">>, <<"n", "a", "m", "e">>>>)
    \/ DoWhere(Matched.cond, Matched.params)
    \/ DoWhereIn(<<"i", "d">>, <<"18", "7">>)
    \/ DoWhereNotIn(<<"i", "d">>, <<"18", "7">>)
    \/ DoWhereNull(<<"n", "a", "m", "e">>)
    \/ DoOrWhere(Matched.cond, Matched.params)
    \/ DoWhereLike(<<"n", "a", "m", "e">>, "7")
    \/ DoWhereNotLike(<<"n", "a", "m", "e">>, "7")
    \/ DoWhereBetween(<<"a", "g", "e">>, "7", "18")
    \/ DoDateBetween(<<"d", "a", "y">>, "7", "18")
    \/ DoJoin(<<"C", "R", "O", "S", "S">>, <<"o">>, <<"o", ".", "u", "i", "d", " ", "=", " ", "i", "d">>)
    \/ DoInnerJoin(<<"o">>, <<"o", ".", "u", "i", "d", " ", "=", " ", "i", "d">>)
    \/ DoLeftJoin(<<"o">>, <<"o", ".", "u", "i", "d", " ", "=", " ", "i", "d">>)
    \/ DoRightJoin(<<"o">>, <<"o", ".", "u", "i", "d", " ", "=", " ", "i", "d">>)
    \/ DoGroupBy(<<<<"i", "d">>, <<"n", "a", "m", "e">>>>)
    \/ DoHaving(Matched.cond, Matched.params)
    \/ DoOrderBy(<<"i", "d", " ", "D", "E", "S", "C">>)
    \/ DoLimit(10)
    \/ DoOffset(5)
    \/ \E dbErr \in BOOLEAN : DoSum(<<"a", "g", "e">>, dbErr)
    \/ \E dbErr \in BOOLEAN : DoMax(<<"a", "g", "e">>, dbErr)
    \/ \E dbErr \in BOOLEAN : DoMin(<<"a", "g", "e">>, dbErr)
    \/ \E dbErr \in BOOLEAN : DoAvg(<<"a", "g", "e">>, dbErr)
    \/ DoBuild
    \/ DoPrintQuery
    \/ \E dbErr \in BOOLEAN : DoCount(dbErr)
    \/ \E order \in Orders(DOMAIN RowA) : \E dbErr \in BOOLEAN : DoInsert(RowA, order, dbErr)
    \/ \E data \in {<<>>, <<RowA, RowAB>>} : \E order \in FirstOrders(data) :
          \E dbErr \in BOOLEAN : DoBulkInsert(data, order, dbErr)
    \/ \E order \in Orders(DOMAIN RowAB) : \E dbErr \in BOOLEAN : DoUpdate(RowAB, order, dbErr)
    \/ \E dbErr \in BOOLEAN : DoDelete(dbErr)
    \/ \E dbErr \in BOOLEAN : DoGet(dbErr)
    \/ \E dbErr \in BOOLEAN : DoFirst(dbErr)

InitAll == Fresh(MaxAllCalls)

SpecAll == InitAll /\ [][NextAll]_vars

----------------------------------------------------------------------------
(* Auxiliary definitions of the properties *)

Last(seq) == seq[Len(seq)]

\* number of `?` in a text
RECURSIVE CountQ(_)
CountQ(text) == IF text = <<>> THEN 0
                ELSE (IF Head(text) = "?" THEN 1 ELSE 0) + CountQ(Tail(text))

IsPrefix(s, t) == Len(s) <= Len(t) /\ SubSeq(t, 1, Len(s)) = s

\* the calls recorded in hist are all of the kinds in ks
OnlyKinds(ks) == \A k \in Kinds \ ks : hist[k] = <<>>

\* every Where, OrWhere and Having call among calls passed as many values as
\* its condition has placeholders
ValuesMatch(calls) ==
    \A i \in 1..Len(calls) :
        calls[i].op \in {"Where", "OrWhere", "Having"}
            => CountQ(calls[i].s[1]) = Len(calls[i].v)

\* the values passed with calls, in call order
RECURSIVE BoundValues(_)
BoundValues(calls) ==
    IF calls = <<>> THEN <<>> ELSE Head(calls).v \o BoundValues(Tail(calls))

\* the calls in hand applied one after the other to builder q
RECURSIVE Replay(_, _)
Replay(q, calls) ==
    IF calls = <<>> THEN q ELSE Replay(Apply(q, Head(calls)), Tail(calls))

\* the builder made by the recorded calls when they are made kind after kind
KindByKind ==
    Replay(Replay(Replay(Replay(Replay(Replay(Table(qb.table),
        hist["Select"]), hist["where"]), hist["join"]), hist["OrderBy"]),
        hist["Limit"]), hist["Offset"])

\* the builder made by the same calls, the kinds taken in the opposite order
KindByKindBack ==
    Replay(Replay(Replay(Replay(Replay(Replay(Table(qb.table),
        hist["Offset"]), hist["Limit"]), hist["OrderBy"]), hist["join"]),
        hist["where"]), hist["Select"])

\* texts, the first followed by sep when another follows
RECURSIVE Separated(_, _)
Separated(texts, sep) ==
    IF Len(texts) <= 1 THEN (IF texts = <<>> THEN <<>> ELSE texts[1])
    ELSE Separated(SubSeq(texts, 1, Len(texts) - 1), sep) \o sep \o Last(texts)

\* keyword followed by body when the clause is present, nothing otherwise
Clause(present, keyword, body) == IF present THEN keyword \o body ELSE <<>>

\* n placeholders separated by ", "
RECURSIVE QMarks(_)
QMarks(n) == IF n = 0 THEN <<>>
             ELSE IF n = 1 THEN <<"?">> ELSE QMarks(n - 1) \o <<",", " ", "?">>

\* the sequence fields of the builder
SeqFields == {"columns", "joins", "where", "having", "parameters"}

----------------------------------------------------------------------------
(* Properties *)

\* C1 (placeholder parity, I1): after calls of Where, WhereIn, WhereNotIn,
\* WhereLike, WhereNotLike, WhereBetween, DateBetween and Having only, each
\* Where and Having call passing as many values as its condition has `?`,
\* the text Build returns has as many `?` as Build returns parameters, and
\* the i-th parameter is the value bound to the i-th `?` of the text.
\* Build does not render the having fragments, so this fails.
PlaceholderParity ==
    (/\ OnlyKinds({"where", "Having"})
     /\ \A i \in 1..Len(hist["where"]) : hist["where"][i].op \notin {"WhereNull", "OrWhere"}
     /\ ValuesMatch(hist["where"])
     /\ ValuesMatch(hist["Having"]))
    => LET b == Build(qb)
       IN  /\ CountQ(b.query) = Len(b.params)
           /\ b.params = BoundValues(hist["where"])

\* C2: Update on a builder on which no Where-family call was made fails with
\* an error and hands no statement to DBConnection.  The code hands it an
\* UPDATE whose WHERE is empty.
UpdateRequiresPredicate ==
    (ret.op = "Update" /\ hist["where"] = <<>>)
    => (ret.err # "" /\ ret.issued = <<>>)

\* C3 (clause-order invariance): the text Build returns is the text of the
\* builder made by the same calls taken kind after kind (Select, Where
\* family, Join family, OrderBy, Limit, Offset), and of the one made with the
\* kinds in the opposite order: calls with the same arguments and the same
\* order within each kind render the same text however they are interleaved.
ClauseOrderInvariance ==
    OnlyKinds({"Select", "where", "join", "OrderBy", "Limit", "Offset"})
    => /\ Build(qb).query = Build(KindByKind).query
       /\ Build(qb).query = Build(KindByKindBack).query

ClauseOrderWitness ==
    /\ ret.op = "Select"
    /\ hist["where"] # <<>>
    /\ hist["join"] # <<>>
    /\ hist["Offset"] # <<>>
    /\ Build(qb).query =
          <<"S", "E", "L", "E", "C", "T", " ", "i", "d", " ", "F", "R", "O", "M", " ", "u", "s", "e", "r", "s", " ", "L", "E", "F", "T", " ", "J", "O", "I", "N", " ", "o", " ", "O", "N", " ", "o", ".", "u", "i", "d", " ", "=", " ", "i", "d", " ", "W", "H", "E", "R", "E", " ", "a", "g", "e", " ", ">", " ", "?", " ", "O", "F", "F", "S", "E", "T", " ", "5">>

\* C4: Build renders SELECT and the projection joined with ", " (or *),
\* FROM and the table, the joins when any, WHERE and the predicates joined
\* with " AND " when any, ORDER BY when orderBy is not empty, LIMIT exactly
\* when limit >= 0 and OFFSET exactly when offset >= 0, in this order, and
\* returns the parameters; a fresh builder renders SELECT * FROM <table>
\* with no parameters.
BuildRendersClauses ==
    LET b == Build(qb)
    IN  /\ b.query =
               <<"S", "E", "L", "E", "C", "T", " ">>
               \o (IF qb.columns = <<>> THEN <<"*">> ELSE Separated(qb.columns, <<",", " ">>))
               \o <<" ", "F", "R", "O", "M", " ">> \o qb.table
               \o Clause(qb.joins # <<>>, <<" ">>, Separated(qb.joins, <<" ">>))
               \o Clause(qb.where # <<>>, <<" ", "W", "H", "E", "R", "E", " ">>, Separated(qb.where, <<" ", "A", "N", "D", " ">>))
               \o Clause(qb.orderBy # <<>>, <<" ", "O", "R", "D", "E", "R", " ", "B", "Y", " ">>, qb.orderBy)
               \o Clause(qb.limit >= 0, <<" ", "L", "I", "M", "I", "T", " ">>, FmtInt(qb.limit))
               \o Clause(qb.offset >= 0, <<" ", "O", "F", "F", "S", "E", "T", " ">>, FmtInt(qb.offset))
        /\ b.params = qb.parameters
        /\ NCalls = 0 => (b.query = <<"S", "E", "L", "E", "C", "T", " ", "*", " ", "F", "R", "O", "M", " ">> \o qb.table /\ b.params = <<>>)
        /\ (/\ OnlyKinds({"where", "OrderBy", "Limit", "Offset"})
            /\ hist["where"] = <<CallOf("Where", <<<<"a", "g", "e", " ", ">", " ", "?">>>>, <<"18">>, 0)>>
            /\ hist["OrderBy"] = <<CallOf("OrderBy", <<<<"i", "d", " ", "D", "E", "S", "C">>>>, <<>>, 0)>>
            /\ hist["Limit"] = <<CallOf("Limit", <<>>, <<>>, 10)>>
            /\ hist["Offset"] = <<CallOf("Offset", <<>>, <<>>, 5)>>)
           => /\ b.query = <<"S", "E", "L", "E", "C", "T", " ", "*", " ", "F", "R", "O", "M", " ", "u", "s", "e", "r", "s", " ", "W", "H", "E", "R", "E", " ", "a", "g", "e", " ", ">", " ", "?", " ", "O", "R", "D", "E", "R", " ", "B", "Y", " ", "i", "d", " ", "D", "E", "S", "C", " ", "L", "I", "M", "I", "T", " ", "1", "0", " ", "O", "F", "F", "S", "E", "T", " ", "5">>
              /\ b.params = <<"18">>

BuildRendersWitness ==
    /\ ret.op = "Build"
    /\ ret.query = <<"S", "E", "L", "E", "C", "T", " ", "*", " ", "F", "R", "O", "M", " ", "u", "s", "e", "r", "s", " ", "W", "H", "E", "R", "E", " ", "a", "g", "e", " ", ">", " ", "?", " ", "O", "R", "D", "E", "R", " ", "B", "Y", " ", "i", "d", " ", "D", "E", "S", "C", " ", "L", "I", "M", "I", "T", " ", "1", "0", " ", "O", "F", "F", "S", "E", "T", " ", "5">>
    /\ ret.params = <<"18">>

\* C5: BulkInsert with no records returns an error and hands no statement
\* to DBConnection, whatever the builder holds.
BulkInsertEmptyRejected ==
    (ret.op = "BulkInsert" /\ ret.data = <<>>)
    => (ret.err # "" /\ ret.issued = <<>> /\ ~panicked)

BulkInsertEmptyWitness ==
    /\ ret.op = "BulkInsert"
    /\ ret.data = <<>>
    /\ qb.where # <<>>
    /\ ret.err = "no data to insert"

\* C6: a step of WhereIn(column, values) / WhereNotIn(column, values)
\* appends the one predicate column IN (?, ..., ?) / column NOT IN (?, ..., ?)
\* with one `?` per value, and appends the values, in order, after the
\* parameters there were; with no values the predicate is column IN () /
\* column NOT IN () and the parameters stay.
WhereInAppends ==
    [][(ret'.op \in {"WhereIn", "WhereNotIn"} /\ hist' # hist)
       => LET c == Last(hist'["where"])
              kw == IF c.op = "WhereIn" THEN <<" ", "I", "N", " ", "(">> ELSE <<" ", "N", "O", "T", " ", "I", "N", " ", "(">>
          IN  /\ qb'.where = Append(qb.where, c.s[1] \o kw \o QMarks(Len(c.v)) \o <<")">>)
              /\ CountQ(Last(qb'.where)) = Len(c.v)
              /\ qb'.parameters = qb.parameters \o c.v
              /\ c.v = <<>> => (Last(qb'.where) = c.s[1] \o kw \o <<")">>
                                /\ qb'.parameters = qb.parameters)]_vars

WhereInWitness ==
    /\ ret.op = "WhereIn"
    /\ Last(hist["where"]).v = <<"18", "7">>
    /\ Last(qb.where) = <<"i", "d", " ", "I", "N", " ", "(", "?", ",", " ", "?", ")">>
    /\ qb.parameters = <<"18", "18", "7">>

\* C7: a step of Build changes no field of the builder, and a Build that
\* follows a Build returns the same text and the same parameters.
BuildIsPure ==
    [][ret'.op = "Build"
       => /\ qb' = qb
          /\ ret.op = "Build" => (ret'.query = ret.query /\ ret'.params = ret.params)]_vars

BuildTwiceWitness ==
    /\ ret.op = "Build"
    /\ ret.again
    /\ qb.parameters # <<>>
    /\ qb.columns # <<>>

\* C8 as stated (append-only, I2): every step leaves each sequence field of
\* the builder a prefix of its new value, the steps of Sum, Max, Min and Avg
\* included.  The aggregates overwrite the projection.
AppendOnly ==
    [][\A f \in SeqFields : IsPrefix(qb[f], qb'[f])]_vars

\* C8 amended: every step of an operation other than Sum, Max, Min and Avg
\* leaves each sequence field a prefix of its new value; a step of Sum, Max,
\* Min or Avg replaces the projection by the one aggregate expression and
\* leaves joins, predicates, having and parameters as they were.
AppendOnlyButAggregates ==
    [][/\ ret'.op \notin Aggregates => \A f \in SeqFields : IsPrefix(qb[f], qb'[f])
       /\ (ret'.op \in Aggregates /\ hist' # hist)
          => /\ Len(qb'.columns) = 1
             /\ qb'.columns[1] = (CASE ret'.op = "Sum" -> <<"S", "U", "M", "(">>
                                    [] ret'.op = "Max" -> <<"M", "A", "X", "(">>
                                    [] ret'.op = "Min" -> <<"M", "I", "N", "(">>
                                    [] ret'.op = "Avg" -> <<"A", "V", "G", "(">>)
                                 \o Last(hist'["aggregate"]).s[1] \o <<")">>
             /\ \A f \in SeqFields \ {"columns"} : qb'[f] = qb[f]]_vars

AggregateOverwritesWitness ==
    /\ ret.op = "Sum"
    /\ hist["Select"] # <<>>
    /\ qb.columns = <<<<"S", "U", "M", "(", "a", "g", "e", ")">>>>

\* C9: BulkInsert with records, whatever their key sets, does not panic and
\* hands DBConnection one INSERT with one group per record and one `?` per
\* column of the first record in each group, binding nil for a column a
\* record lacks.  The code panics on a record with fewer keys than the first.
BulkInsertAnyKeys ==
    (ret.op = "BulkInsert" /\ ret.data # <<>>)
    => /\ ~panicked
       /\ Len(ret.issued) = 1
       /\ CountQ(ret.issued[1].query) = Len(ret.data) * Len(ret.order)
       /\ Len(ret.issued[1].args) = Len(ret.data) * Len(ret.order)
       /\ \A r \in 1..Len(ret.data) : \A i \in 1..Len(ret.order) :
              ret.issued[1].args[(r - 1) * Len(ret.order) + i]
                  = Lookup(ret.data[r], ret.order[i])

\* C10: for Update and Delete on a builder configured by Where-family calls
\* only, each passing as many values as its condition has `?`, the values
\* handed to DBConnection are those of the `?` of the statement, in text
\* order: the SET values and then the predicate values for Update, the
\* predicate values for Delete.  Update hands over the SET values only.
BindValuesMatchText ==
    (/\ ret.op \in {"Update", "Delete"}
     /\ OnlyKinds({"where"})
     /\ ValuesMatch(hist["where"]))
    => /\ Len(ret.issued) = 1
       /\ CountQ(ret.issued[1].query) = Len(ret.issued[1].args)
       /\ ret.issued[1].args =
              (IF ret.op = "Update"
               THEN [i \in 1..Len(ret.order) |-> ret.data[1][ret.order[i]]]
               ELSE <<>>)
              \o BoundValues(hist["where"])

====
